---- MODULE Spec2Model ----
(***************************************************************************)
(* The cache/dedup coordination engine of dnt-yt: the API side's           *)
(* ensure_cache_request (src/app/main.py), the worker side's               *)
(* download_av_job (src/app/jobs.py), the Redis keys they share (metadata  *)
(* record, enqueue lock, last-job key), the RQ queue "yt" and the media    *)
(* directory.  Time is the wall clock in seconds.                          *)
(***************************************************************************)
EXTENDS Integers, Sequences, FiniteSets, TLC

\* ------------------------------------------------------------------ bounds
\* The clock stops advancing at MaxNow seconds.
MaxNow == 3600
\* At most MaxAcquire lock records are ever created (all identifiers together).
MaxAcquire == 2
\* A list of candidate paths handed to _pick_newest_nonempty has at most MaxPaths entries.
MaxPaths == 3
\* The updated_at of a record handed to store_media is at most MaxStamp.
MaxStamp == 2

\* --------------------------------------------------------------- constants
\* ex=600 of the lock SET (main.py:125)
LOCK_TTL == 600
\* job_timeout=3600 of q.enqueue (main.py:132)
JOB_TIMEOUT == 3600
\* ex=3600 of the last-job SET (main.py:135)
LAST_JOB_TTL == 3600
\* timeout_seconds=1800 of the video invocation (jobs.py:175)
VIDEO_TIMEOUT == 1800
\* timeout_seconds=1800 of the audio invocation (jobs.py:186)
AUDIO_TIMEOUT == 1800

\* The identifiers, the API request threads and the RQ workers.
IDS == {"idA", "idB"}
\* The characters of an identifier: extract_youtube_id (ytdlp_utils.py:5-17) lets
\* through only strings of one fixed length over letters, digits, "_" and "-".
\* The two identifiers differ in their last character only.
IdText(x) ==
    IF x = "idA" THEN <<"a", "-", "b">> ELSE IF x = "idB" THEN <<"a", "-", "c">> ELSE <<>>
\* The identifiers that clients ask for when time and failures are followed (Spec).
Requested == {"idA"}
Callers == {1, 2}
Workers == {1, 2}
\* The amounts of time one clock step lets pass.  Between two steps of the clock
\* any number of steps of the callers and the workers happen.
TickSteps == {1800}

MEDIA_ROOT == "/data"
Kinds == {"video", "audio"}
\* The extensions yt-dlp may choose for %(ext)s.
Exts(kind) == IF kind = "video" THEN {"mp4"} ELSE {"m4a"}
\* Exit statuses of yt-dlp.
ExitCodes == {0, 1}
\* File sizes: empty or not.
Sizes == {0, 1}
\* Modification times yt-dlp may leave on a file it wrote (by default it sets
\* the file's mtime from the server's Last-Modified header).
MTimes == {1}

VARIABLES
    now,      \* time.time()
    media,    \* Redis yt:media:<id>: the stored bytes, <<>> when the key is absent
    lock,     \* Redis yt:lock:<id>
    lastJob,  \* Redis yt:last_job:<id>
    queue,    \* the RQ queue "yt"
    files,    \* MEDIA_ROOT: path -> file
    req,      \* the ensure_cache_request call of each API thread
    wk,       \* the download_av_job execution of each worker
    nextTok,  \* history: the number of the next lock record / job
    won,      \* history: lock record -> SET-NX calls that reported success on it
    enq,      \* history: lock record -> jobs enqueued by the calls that won it
    call      \* a direct call of one helper function: its arguments and its result

vars == <<now, media, lock, lastJob, queue, files, req, wk, nextTok, won, enq, call>>

Toks == 1..MaxAcquire

\* ------------------------------------------------------------ pure helpers

\* k_media / k_lock: one key per identifier; the stores below are indexed by
\* identifier, which is what the f-strings amount to.
k_media(video_id) == <<"yt:media:", video_id>>
k_lock(video_id) == <<"yt:lock:", video_id>>

build_watch_url(video_id) == <<"https://www.youtube.com/watch?v=", video_id>>

\* os.path.join(MEDIA_ROOT, f"{video_id}.{kind}.{ext}")
Path(video_id, kind, ext) == <<MEDIA_ROOT, video_id, kind, ext>>
FilePaths ==
    UNION {{Path(x, k, e) : e \in Exts(k)} : x \in IDS, k \in Kinds}
NoPath == <<>>
NoFile == [exists |-> FALSE, size |-> 0, mtime |-> 0]

\* json.dumps(payload).encode / json.loads(raw.decode): the bytes are the
\* key/value pairs in the dict's insertion order.
PayloadKeys == <<"video_id", "watch_url", "video_path", "audio_path", "updated_at">>
Dumps(payload) == [i \in 1..Len(PayloadKeys) |-> <<PayloadKeys[i], payload[PayloadKeys[i]]>>]
\* Mutant of Loads: of two pairs with the same key the first one wins, and the
\* last key of the document is lost.
LoadsTruncated(raw) ==
    [k \in {raw[i][1] : i \in DOMAIN raw \ {Len(raw)}} |->
        raw[CHOOSE i \in DOMAIN raw : raw[i][1] = k /\ \A j \in DOMAIN raw : raw[j][1] = k => i <= j][2]]
Loads(raw) ==
    [k \in {raw[i][1] : i \in DOMAIN raw} |->
        raw[CHOOSE i \in DOMAIN raw : raw[i][1] = k /\ \A j \in DOMAIN raw : raw[j][1] = k => j <= i][2]]

NoRaw == <<>>
\* get_media: None (modelled as the empty dict, equally falsy) when the key is absent
get_media(store, video_id) ==
    IF store[video_id] = NoRaw THEN <<>> ELSE Loads(store[video_id])

\* dict.get(key) of a path field: None and "" are both falsy, modelled as NoPath
DictGet(m, key) == IF key \in DOMAIN m THEN m[key] ELSE NoPath

\* Mutant of MediaReady: the keys are misspelt, so no record is ever ready.
MediaReadyWrongKeys(m) ==
    /\ m # <<>>
    /\ DictGet(m, "video") # NoPath
    /\ DictGet(m, "audio") # NoPath

\* `media and media.get("video_path") and media.get("audio_path")`
MediaReady(m) ==
    /\ m # <<>>
    /\ DictGet(m, "video_path") # NoPath
    /\ DictGet(m, "audio_path") # NoPath

NoLock == [held |-> FALSE, tok |-> 0, exp |-> 0]
NoKey == [set |-> FALSE, jid |-> 0, exp |-> 0]

\* Mutant of GotLock: the reply is taken as a refusal whatever it is.
GotLockNever(l) == FALSE
\* Mutant of GotLock: the reply is not looked at.
GotLockAlways(l) == TRUE
\* r.set(lock_key, b"1", nx=True, ex=600): the reply
GotLock(l) == ~l.held
\* Mutant of LockAfterSetNX: a SET without nx=True
LockAfterSet(l, tok, t) == [held |-> TRUE, tok |-> tok, exp |-> t + LOCK_TTL]
\* r.set(lock_key, b"1", nx=True, ex=600): the key afterwards
LockAfterSetNX(l, tok, t) ==
    IF l.held THEN l ELSE [held |-> TRUE, tok |-> tok, exp |-> t + LOCK_TTL]

\* Mutant of ExpireLock: the lock key has no TTL.
ExpireLockNever(l, t) == l
\* Redis key expiry as of time t
ExpireLock(l, t) == IF l.held /\ l.exp <= t THEN NoLock ELSE l
ExpireKey(k, t) == IF k.set /\ k.exp <= t THEN NoKey ELSE k

\* The name of a file in MEDIA_ROOT, character by character (the kind and the
\* extension are single tokens; the <lang>.vtt of a subtitle file is one token).
FileName(p) == IdText(p[2]) \o <<".", p[3], ".", p[4]>>
\* Mutant of GlobPattern: the identifier is not part of the pattern.
GlobPatternAnyId(video_id, kind) == <<"*", ".", kind, ".", "*">>
\* f"{video_id}.{kind}.*"
GlobPattern(video_id, kind) == IdText(video_id) \o <<".", kind, ".", "*">>
\* fnmatch: "*" matches any run of characters, "?" any one character, every
\* other character itself
RECURSIVE GlobMatch(_, _)
GlobMatch(pat, name) ==
    IF pat = <<>> THEN name = <<>>
    ELSE IF Head(pat) = "*"
         THEN \E k \in 0..Len(name) : GlobMatch(Tail(pat), SubSeq(name, k + 1, Len(name)))
    ELSE IF Head(pat) = "?"
         THEN name # <<>> /\ GlobMatch(Tail(pat), Tail(name))
    ELSE name # <<>> /\ Head(name) = Head(pat) /\ GlobMatch(Tail(pat), Tail(name))
\* glob.glob(os.path.join(MEDIA_ROOT, f"{video_id}.{kind}.*")): the matching
\* paths, in an order the directory decides
GlobSet(fs, video_id, kind) ==
    {p \in DOMAIN fs : fs[p].exists /\ GlobMatch(GlobPattern(video_id, kind), FileName(p))}
Orders(S) == {s \in [1..Cardinality(S) -> S] : \A i, j \in DOMAIN s : i # j => s[i] # s[j]}

\* Mutant of Candidates: no filter on existence and size.
CandidatesAll(paths, fs) == paths
\* _pick_newest_nonempty: the first of the newest among the non-empty files
\* (list.sort is stable, also with reverse=True)
Candidates(paths, fs) ==
    LET Keep(p) == fs[p].exists /\ fs[p].size > 0 IN SelectSeq(paths, Keep)
\* Mutant of PickNewestNonempty: the largest file wins, not the newest.
PickLargestNonempty(paths, fs) ==
    LET candidates == Candidates(paths, fs) IN
    IF candidates = <<>> THEN NoPath
    ELSE LET best == CHOOSE i \in DOMAIN candidates :
                  /\ \A j \in DOMAIN candidates :
                        fs[candidates[j]].size <= fs[candidates[i]].size
                  /\ \A j \in DOMAIN candidates :
                        fs[candidates[j]].size = fs[candidates[i]].size => i <= j
         IN candidates[best]
PickNewestNonempty(paths, fs) ==
    LET candidates == Candidates(paths, fs) IN
    IF candidates = <<>> THEN NoPath
    ELSE LET best == CHOOSE i \in DOMAIN candidates :
                  /\ \A j \in DOMAIN candidates :
                        fs[candidates[j]].mtime <= fs[candidates[i]].mtime
                  /\ \A j \in DOMAIN candidates :
                        fs[candidates[j]].mtime = fs[candidates[i]].mtime => i <= j
         IN candidates[best]

\* What one yt-dlp invocation leaves in MEDIA_ROOT: nothing, or one file
\* <id>.<kind>.<ext> of some size and modification time.
ToolWrites(kind) == {<<>>} \cup {<<e, s, m>> : e \in Exts(kind), s \in Sizes, m \in MTimes}
FilesAfterTool(fs, video_id, kind, wr) ==
    IF wr = <<>> THEN fs
    ELSE [fs EXCEPT ![Path(video_id, kind, wr[1])] =
              [exists |-> TRUE, size |-> wr[2], mtime |-> wr[3]]]

\* ------------------------------------------------------------------- state

IdleReq == [pc |-> "idle", vid |-> "", tok |-> 0]
IdleWk == [pc |-> "idle", id |-> "", tok |-> 0, startedAt |-> 0, toolStart |-> 0,
           video_path |-> NoPath, audio_path |-> NoPath, exc |-> "none"]

\* No helper function is being called directly.  pc is the step a direct call is
\* about to take.
NoCall == [fn |-> "none", args |-> <<>>, ret |-> <<>>, pc |-> "done"]

\* No request in progress, no job queued or running, no lock.
Quiet ==
    /\ now = 0
    /\ lock = [x \in IDS |-> NoLock]
    /\ lastJob = [x \in IDS |-> NoKey]
    /\ queue = <<>>
    /\ req = [c \in Callers |-> IdleReq]
    /\ wk = [w \in Workers |-> IdleWk]
    /\ nextTok = 1
    /\ won = [t \in Toks |-> 0]
    /\ enq = [t \in Toks |-> 0]

Init ==
    /\ Quiet
    /\ media = [x \in IDS |-> NoRaw]
    /\ files = [p \in FilePaths |-> NoFile]
    /\ call = NoCall

\* The API threads are interchangeable: a call starts on the first idle one,
FirstIdle(c) == \A c2 \in Callers : req[c2].pc = "idle" => c <= c2
\* and so are the workers: the first idle one takes the job.
FirstFree(w) == \A w2 \in Workers : wk[w2].pc = "idle" => w <= w2

\* ------------------------------------------------- ensure_cache_request

\* main.py:118-120: read the metadata record; return "" when it is ready
EnsureRead(c, x) ==
    /\ req[c].pc = "idle"
    /\ FirstIdle(c)
    /\ IF MediaReady(get_media(media, x))
       THEN req' = req
       ELSE req' = [req EXCEPT ![c] = [IdleReq EXCEPT !.vid = x, !.pc = "setnx"]]
    /\ UNCHANGED <<now, media, lock, lastJob, queue, files, wk, nextTok, won, enq, call>>

\* main.py:122-129: SET NX EX on the lock key; return "" when it is taken
EnsureSetNX(c) ==
    /\ req[c].pc = "setnx"
    /\ LET x == req[c].vid
           l == lock[x]
           l2 == LockAfterSetNX(l, nextTok, now)
       IN /\ (l2 # l \/ GotLock(l)) => nextTok <= MaxAcquire
          /\ lock' = [lock EXCEPT ![x] = l2]
          /\ nextTok' = IF l2 # l THEN nextTok + 1 ELSE nextTok
          /\ IF GotLock(l)
             THEN /\ req' = [req EXCEPT ![c] = [@ EXCEPT !.pc = "enqueue", !.tok = l2.tok]]
                  /\ won' = [t \in Toks |-> IF t = l2.tok THEN won[t] + 1 ELSE won[t]]
             ELSE /\ req' = [req EXCEPT ![c] = IdleReq]
                  /\ won' = won
    /\ UNCHANGED <<now, media, lastJob, queue, files, wk, enq, call>>

\* main.py:131-132: q.enqueue(download_av_job, video_id, job_timeout=3600)
EnsureEnqueue(c) ==
    /\ req[c].pc = "enqueue"
    /\ queue' = Append(queue, [id |-> req[c].vid, tok |-> req[c].tok])
    /\ enq' = [t \in Toks |-> IF t = req[c].tok THEN enq[t] + 1 ELSE enq[t]]
    /\ req' = [req EXCEPT ![c] = [@ EXCEPT !.pc = "setlast"]]
    /\ UNCHANGED <<now, media, lock, lastJob, files, wk, nextTok, won, call>>

\* main.py:131-132: the enqueue raises (Redis unreachable); nothing catches it
EnsureEnqueueFail(c) ==
    /\ req[c].pc = "enqueue"
    /\ req' = [req EXCEPT ![c] = IdleReq]
    /\ UNCHANGED <<now, media, lock, lastJob, queue, files, wk, nextTok, won, enq, call>>

\* main.py:135-137: record the job id for an hour; return it
EnsureSetLast(c) ==
    /\ req[c].pc = "setlast"
    /\ lastJob' = [lastJob EXCEPT ![req[c].vid] =
                     [set |-> TRUE, jid |-> req[c].tok, exp |-> now + LAST_JOB_TTL]]
    /\ req' = [req EXCEPT ![c] = IdleReq]
    /\ UNCHANGED <<now, media, lock, queue, files, wk, nextTok, won, enq, call>>

\* ------------------------------------------------------ download_av_job

InTry == {"video", "audio", "resolve", "store"}
Running == InTry \cup {"finally"}

\* Control reaches the finally block (jobs.py:229); the locals it does not read are
\* dropped.  exc is the exception in flight: "none" on the return path, "tool_failed"
\* for the RuntimeError of a non-zero exit status (jobs.py:179, 190), "missing" for
\* the RuntimeError of an output that was not found (jobs.py:204, 206), "other" for
\* any other exception.
Finally(j, exc) == [IdleWk EXCEPT !.pc = "finally", !.id = j.id, !.tok = j.tok, !.exc = exc]
\* An exception inside the try block (jobs.py:171)
Raise(j, exc) == Finally(j, exc)
\* Mutant of Failed: only a status above 1 counts as a failure.
FailedAboveOne(rc) == rc > 1
\* Mutant of Failed: the exit status is not checked.
FailedNever(rc) == FALSE
\* `if rc_v != 0` / `if rc_a != 0` (jobs.py:178, 189)
Failed(rc) == rc # 0

\* worker.py:19-21, jobs.py:103-175: a worker takes the next job; makedirs, the
\* argument lists, then the video invocation starts
JobStart(w) ==
    /\ wk[w].pc = "idle"
    /\ FirstFree(w)
    /\ queue # <<>>
    /\ wk' = [wk EXCEPT ![w] = [IdleWk EXCEPT !.pc = "video", !.id = Head(queue).id,
                                              !.tok = Head(queue).tok,
                                              !.startedAt = now, !.toolStart = now]]
    /\ queue' = Tail(queue)
    /\ UNCHANGED <<now, media, lock, lastJob, files, req, nextTok, won, enq, call>>

\* jobs.py:106: a worker takes the next job and os.makedirs raises; the statement
\* is before the try (jobs.py:171), so the exception leaves the function at once
JobStartFail(w) ==
    /\ wk[w].pc = "idle"
    /\ FirstFree(w)
    /\ queue # <<>>
    /\ queue' = Tail(queue)
    /\ UNCHANGED <<now, media, lock, lastJob, files, req, wk, nextTok, won, enq, call>>

\* jobs.py:175-186: the video invocation exits with rc
VideoExit(w, rc, wr) ==
    /\ wk[w].pc = "video"
    /\ now - wk[w].toolStart < VIDEO_TIMEOUT
    /\ now - wk[w].startedAt < JOB_TIMEOUT
    /\ files' = FilesAfterTool(files, wk[w].id, "video", wr)
    /\ wk' = [wk EXCEPT ![w] =
                IF Failed(rc) THEN Raise(@, "tool_failed")
                ELSE [@ EXCEPT !.pc = "audio", !.toolStart = now]]
    /\ UNCHANGED <<now, media, lock, lastJob, queue, req, nextTok, won, enq, call>>

\* jobs.py:175, ytdlp_utils.py:69: subprocess.run raises TimeoutExpired
VideoTimeout(w, wr) ==
    /\ wk[w].pc = "video"
    /\ now - wk[w].toolStart >= VIDEO_TIMEOUT
    /\ files' = FilesAfterTool(files, wk[w].id, "video", wr)
    /\ wk' = [wk EXCEPT ![w] = Raise(@, "other")]
    /\ UNCHANGED <<now, media, lock, lastJob, queue, req, nextTok, won, enq, call>>

\* jobs.py:186-192: the audio invocation exits with rc
AudioExit(w, rc, wr) ==
    /\ wk[w].pc = "audio"
    /\ now - wk[w].toolStart < AUDIO_TIMEOUT
    /\ now - wk[w].startedAt < JOB_TIMEOUT
    /\ files' = FilesAfterTool(files, wk[w].id, "audio", wr)
    /\ wk' = [wk EXCEPT ![w] =
                IF Failed(rc) THEN Raise(@, "tool_failed")
                ELSE [@ EXCEPT !.pc = "resolve", !.toolStart = 0]]
    /\ UNCHANGED <<now, media, lock, lastJob, queue, req, nextTok, won, enq, call>>

\* jobs.py:186, ytdlp_utils.py:69: subprocess.run raises TimeoutExpired
AudioTimeout(w, wr) ==
    /\ wk[w].pc = "audio"
    /\ now - wk[w].toolStart >= AUDIO_TIMEOUT
    /\ files' = FilesAfterTool(files, wk[w].id, "audio", wr)
    /\ wk' = [wk EXCEPT ![w] = Raise(@, "other")]
    /\ UNCHANGED <<now, media, lock, lastJob, queue, req, nextTok, won, enq, call>>

\* jobs.py:208-214
Payload(video_id, video_path, audio_path, t) ==
    [video_id |-> video_id, watch_url |-> build_watch_url(video_id),
     video_path |-> video_path, audio_path |-> audio_path, updated_at |-> t]

\* Mutant of store_media: the write is dropped.
store_media_dropped(store, video_id, payload) == store
\* jobs.py:67-70: r.set(k_media, json.dumps(payload))
store_media(store, video_id, payload) ==
    [store EXCEPT ![video_id] = Dumps(payload)]

\* jobs.py:197-206: glob both kinds, pick, raise when one is missing; the two
\* paths stay in the job's local variables
Resolve(w, v_paths, a_paths) ==
    /\ wk[w].pc = "resolve"
    /\ now - wk[w].startedAt < JOB_TIMEOUT
    /\ LET video_path == PickNewestNonempty(v_paths, files)
           audio_path == PickNewestNonempty(a_paths, files)
       IN wk' = [wk EXCEPT ![w] =
                   IF video_path = NoPath \/ audio_path = NoPath
                   THEN Raise(@, "missing")
                   ELSE [@ EXCEPT !.pc = "store", !.video_path = video_path,
                                  !.audio_path = audio_path]]
    /\ UNCHANGED <<now, media, lock, lastJob, queue, files, req, nextTok, won, enq, call>>

\* jobs.py:208-227: publish the record and build the return value
Store(w) ==
    /\ wk[w].pc = "store"
    /\ now - wk[w].startedAt < JOB_TIMEOUT
    /\ media' = store_media(media, wk[w].id,
                            Payload(wk[w].id, wk[w].video_path, wk[w].audio_path, now))
    /\ wk' = [wk EXCEPT ![w] = Finally(@, "none")]
    /\ UNCHANGED <<now, lock, lastJob, queue, files, req, nextTok, won, enq, call>>

\* jobs.py:216: store_media raises (Redis unreachable)
StoreFail(w) ==
    /\ wk[w].pc = "store"
    /\ wk' = [wk EXCEPT ![w] = Raise(@, "other")]
    /\ UNCHANGED <<now, media, lock, lastJob, queue, files, req, nextTok, won, enq, call>>

\* main.py:132: RQ raises JobTimeoutException in the job after job_timeout seconds
JobTimeout(w) ==
    /\ wk[w].pc \in InTry
    /\ now - wk[w].startedAt >= JOB_TIMEOUT
    /\ wk' = [wk EXCEPT ![w] = Raise(@, "other")]
    /\ UNCHANGED <<now, media, lock, lastJob, queue, files, req, nextTok, won, enq, call>>

\* jobs.py:82-85: r.delete(k_lock)
release_lock(locks, video_id) == [locks EXCEPT ![video_id] = NoLock]

\* jobs.py:229-232: the finally block, then the job ends
Release(w) ==
    /\ wk[w].pc = "finally"
    /\ lock' = release_lock(lock, wk[w].id)
    /\ wk' = [wk EXCEPT ![w] = IdleWk]
    /\ UNCHANGED <<now, media, lastJob, queue, files, req, nextTok, won, enq, call>>

\* The worker process is killed (SIGKILL, power loss): no finally block runs.
WorkerDie(w) ==
    /\ wk[w].pc \in Running
    /\ wk' = [wk EXCEPT ![w] = [IdleWk EXCEPT !.pc = "dead", !.id = wk[w].id, !.tok = wk[w].tok]]
    /\ UNCHANGED <<now, media, lock, lastJob, queue, files, req, nextTok, won, enq, call>>

\* worker.py:19-21: the worker process is started again
WorkerRestart(w) ==
    /\ wk[w].pc = "dead"
    /\ wk' = [wk EXCEPT ![w] = IdleWk]
    /\ UNCHANGED <<now, media, lock, lastJob, queue, files, req, nextTok, won, enq, call>>

\* ------------------------------------------------------------------- time

\* d seconds pass: Redis drops the keys whose TTL is over.  A subprocess or a
\* job at its deadline is interrupted before more time passes.
Tick(d) ==
    /\ now + d <= MaxNow
    /\ \A w \in Workers :
          /\ wk[w].pc = "video" => now + d <= wk[w].toolStart + VIDEO_TIMEOUT
          /\ wk[w].pc = "audio" => now + d <= wk[w].toolStart + AUDIO_TIMEOUT
          /\ wk[w].pc \in InTry => now + d <= wk[w].startedAt + JOB_TIMEOUT
    /\ now' = now + d
    /\ lock' = [x \in IDS |-> ExpireLock(lock[x], now + d)]
    /\ lastJob' = [x \in IDS |-> ExpireKey(lastJob[x], now + d)]
    /\ UNCHANGED <<media, queue, files, req, wk, nextTok, won, enq, call>>

Next ==
    \/ \E c \in Callers, x \in Requested : EnsureRead(c, x)
    \/ \E c \in Callers : EnsureSetNX(c)
    \/ \E c \in Callers : EnsureEnqueue(c)
    \/ \E c \in Callers : EnsureEnqueueFail(c)
    \/ \E c \in Callers : EnsureSetLast(c)
    \/ \E w \in Workers : JobStart(w)
    \/ \E w \in Workers : JobStartFail(w)
    \/ \E w \in Workers, rc \in ExitCodes, wr \in ToolWrites("video") : VideoExit(w, rc, wr)
    \/ \E w \in Workers, wr \in ToolWrites("video") : VideoTimeout(w, wr)
    \/ \E w \in Workers, rc \in ExitCodes, wr \in ToolWrites("audio") : AudioExit(w, rc, wr)
    \/ \E w \in Workers, wr \in ToolWrites("audio") : AudioTimeout(w, wr)
    \/ \E w \in Workers :
          /\ wk[w].pc = "resolve"
          /\ \E v_paths \in Orders(GlobSet(files, wk[w].id, "video")),
                a_paths \in Orders(GlobSet(files, wk[w].id, "audio")) :
                   Resolve(w, v_paths, a_paths)
    \/ \E w \in Workers : Store(w)
    \/ \E w \in Workers : StoreFail(w)
    \/ \E w \in Workers : JobTimeout(w)
    \/ \E w \in Workers : Release(w)
    \/ \E w \in Workers : WorkerDie(w)
    \/ \E w \in Workers : WorkerRestart(w)
    \/ \E d \in TickSteps : Tick(d)

Spec == Init /\ [][Next]_vars

\* A deadline of the job a worker is executing has passed and takes effect:
\* subprocess.run raises TimeoutExpired (ytdlp_utils.py:69) or RQ raises its job
\* timeout (main.py:132).
DeadlineStep(w) ==
    \/ \E wr \in ToolWrites("video") : VideoTimeout(w, wr)
    \/ \E wr \in ToolWrites("audio") : AudioTimeout(w, wr)
    \/ JobTimeout(w)

\* The same system under fair scheduling: time keeps passing (Redis expires keys)
\* and a deadline that has passed takes effect unless the worker is killed.
\* Nothing obliges a call to be made, a job to be taken from the queue, a
\* subprocess to return or a dead worker to be restarted.
FairSpec ==
    /\ Spec
    /\ WF_vars(\E d \in TickSteps : Tick(d))
    /\ \A w \in Workers : WF_vars(DeadlineStep(w))

\* ------------------------------------------------- several identifiers

\* Requests and jobs for all identifiers, with the steps that need no time to
\* pass: no key expires, no timeout fires.
AllIdsNext ==
    \/ \E c \in Callers, x \in IDS : EnsureRead(c, x)
    \/ \E c \in Callers : EnsureSetNX(c)
    \/ \E c \in Callers : EnsureEnqueue(c)
    \/ \E c \in Callers : EnsureEnqueueFail(c)
    \/ \E c \in Callers : EnsureSetLast(c)
    \/ \E w \in Workers : JobStart(w)
    \/ \E w \in Workers : JobStartFail(w)
    \/ \E w \in Workers, rc \in ExitCodes, wr \in ToolWrites("video") : VideoExit(w, rc, wr)
    \/ \E w \in Workers, rc \in ExitCodes, wr \in ToolWrites("audio") : AudioExit(w, rc, wr)
    \/ \E w \in Workers :
          /\ wk[w].pc = "resolve"
          /\ \E v_paths \in Orders(GlobSet(files, wk[w].id, "video")),
                a_paths \in Orders(GlobSet(files, wk[w].id, "audio")) :
                   Resolve(w, v_paths, a_paths)
    \/ \E w \in Workers : Store(w)
    \/ \E w \in Workers : StoreFail(w)
    \/ \E w \in Workers : Release(w)

AllIdsSpec == Init /\ [][AllIdsNext]_vars

\* ------------------------------------- _pick_newest_nonempty called directly

\* The directory entries the candidate lists are drawn from, and what may be
\* behind each: nothing (or not a regular file), or a file of some size and
\* modification time.
PickExts == {"mp4", "webm", "mkv"}
PickPaths == {Path("idA", "video", e) : e \in PickExts}
PickSizes == {0, 1, 2}
PickMTimes == {1, 2}
FileStates == {NoFile} \cup [exists : {TRUE}, size : PickSizes, mtime : PickMTimes]
PathLists == UNION {[1..n -> PickPaths] : n \in 0..MaxPaths}

PickInit ==
    /\ Quiet
    /\ media = [x \in IDS |-> NoRaw]
    /\ files \in [PickPaths -> FileStates]
    /\ call \in {[fn |-> "pick", args |-> paths, ret |-> NoPath, pc |-> "pick"] :
                    paths \in PathLists}

\* jobs.py:37-46: _pick_newest_nonempty(paths) returns
PickCall ==
    /\ call.fn = "pick" /\ call.pc = "pick"
    /\ call' = [call EXCEPT !.ret = PickNewestNonempty(call.args, files), !.pc = "done"]
    /\ UNCHANGED <<now, media, lock, lastJob, queue, files, req, wk, nextTok, won, enq>>

PickSpec == PickInit /\ [][PickCall]_vars

\* ---------------------------------------- store_media / get_media called directly

\* The records handed to store_media: string paths (the empty string included), a
\* URL string, an integer timestamp.
StorePathValues == {NoPath, Path("idA", "video", "mp4"), Path("idA", "audio", "m4a")}
StoreUrls == {build_watch_url(x) : x \in IDS} \cup {<<"https://youtu.be/", "idA">>}
StoreRecords ==
    [video_id : IDS, watch_url : StoreUrls, video_path : StorePathValues,
     audio_path : StorePathValues, updated_at : 0..MaxStamp]
\* What the store holds before the call: nothing, or an earlier record.
StoreBefore == {NoRaw, Dumps(Payload("idA", NoPath, NoPath, 0))}

StoreInit ==
    /\ Quiet
    /\ files = [p \in FilePaths |-> NoFile]
    /\ media \in [IDS -> StoreBefore]
    /\ call \in {[fn |-> "store_get", args |-> <<x, payload>>, ret |-> <<>>, pc |-> "store"] :
                    x \in IDS, payload \in StoreRecords}
             \cup {[fn |-> "get", args |-> <<x>>, ret |-> <<>>, pc |-> "get"] : x \in IDS}

\* jobs.py:67-70: store_media(video_id, payload)
StoreCall ==
    /\ call.fn = "store_get" /\ call.pc = "store"
    /\ media' = store_media(media, call.args[1], call.args[2])
    /\ call' = [call EXCEPT !.pc = "get"]
    /\ UNCHANGED <<now, lock, lastJob, queue, files, req, wk, nextTok, won, enq>>

\* jobs.py:73-79: get_media(video_id) returns
GetCall ==
    /\ call.fn \in {"store_get", "get"} /\ call.pc = "get"
    /\ call' = [call EXCEPT !.ret = get_media(media, call.args[1]), !.pc = "done"]
    /\ UNCHANGED <<now, media, lock, lastJob, queue, files, req, wk, nextTok, won, enq>>

StoreNext == StoreCall \/ GetCall

StoreSpec == StoreInit /\ [][StoreNext]_vars

\* ------------------------------- a job in a directory that earlier attempts used

\* The video invocation is also asked for subtitles (--write-subs
\* --write-auto-subs --sub-format vtt, jobs.py:145-153); with the output template
\* <id>.video.%(ext)s yt-dlp names a subtitle file <id>.video.<lang>.vtt.
SubExts == {"en.vtt"}
JobPaths ==
    {Path("idA", "video", e) : e \in Exts("video") \cup SubExts}
    \cup {Path("idA", "audio", e) : e \in Exts("audio")}
\* What an earlier attempt may have left behind a path: nothing, or a file that
\* is older than anything the job writes.
Leftovers == {NoFile} \cup [exists : {TRUE}, size : Sizes, mtime : {0}]
\* What one invocation of the job leaves: as ToolWrites, with a modification
\* time that is the time of writing or the server's Last-Modified.
JobWrites(kind) == {<<>>} \cup {<<e, s, m>> : e \in Exts(kind), s \in Sizes, m \in PickMTimes}

\* The state after one ensure_cache_request("idA") has run to its end: the lock
\* taken, the job queued, the last-job key set; the directory holds what earlier
\* attempts left in it.
JobInit ==
    /\ now = 0
    /\ media = [x \in IDS |-> NoRaw]
    /\ lock = [x \in IDS |-> IF x = "idA" THEN LockAfterSetNX(NoLock, 1, 0) ELSE NoLock]
    /\ lastJob = [x \in IDS |-> IF x = "idA"
                                THEN [set |-> TRUE, jid |-> 1, exp |-> LAST_JOB_TTL]
                                ELSE NoKey]
    /\ queue = <<[id |-> "idA", tok |-> 1]>>
    /\ req = [c \in Callers |-> IdleReq]
    /\ wk = [w \in Workers |-> IdleWk]
    /\ nextTok = 2
    /\ won = [t \in Toks |-> IF t = 1 THEN 1 ELSE 0]
    /\ enq = [t \in Toks |-> IF t = 1 THEN 1 ELSE 0]
    /\ files \in [JobPaths -> Leftovers]
    /\ call = NoCall

\* jobs.py:145-153, 175: the running video invocation writes a subtitle file
VideoWriteSubs(w, e, s, m) ==
    /\ wk[w].pc = "video"
    /\ Path(wk[w].id, "video", e) \in DOMAIN files
    /\ files' = [files EXCEPT ![Path(wk[w].id, "video", e)] =
                    [exists |-> TRUE, size |-> s, mtime |-> m]]
    /\ UNCHANGED <<now, media, lock, lastJob, queue, req, wk, nextTok, won, enq, call>>

JobNext ==
    \/ \E w \in Workers : JobStart(w)
    \/ \E w \in Workers : JobStartFail(w)
    \/ \E w \in Workers, e \in SubExts, s \in Sizes, m \in PickMTimes : VideoWriteSubs(w, e, s, m)
    \/ \E w \in Workers, rc \in ExitCodes, wr \in JobWrites("video") : VideoExit(w, rc, wr)
    \/ \E w \in Workers, rc \in ExitCodes, wr \in JobWrites("audio") : AudioExit(w, rc, wr)
    \/ \E w \in Workers :
          /\ wk[w].pc = "resolve"
          /\ \E v_paths \in Orders(GlobSet(files, wk[w].id, "video")),
                a_paths \in Orders(GlobSet(files, wk[w].id, "audio")) :
                   Resolve(w, v_paths, a_paths)
    \/ \E w \in Workers : Store(w)
    \/ \E w \in Workers : StoreFail(w)
    \/ \E w \in Workers : Release(w)

JobSpec == JobInit /\ [][JobNext]_vars

\* ------------------------------------------------------------------ claims

\* The metadata record of x is stored with both paths populated.
BothPaths(x) ==
    /\ media[x] # NoRaw
    /\ \E i, j \in DOMAIN media[x] :
          /\ media[x][i][1] = "video_path" /\ media[x][i][2] # NoPath
          /\ media[x][j][1] = "audio_path" /\ media[x][j][2] # NoPath

\* The jobs enqueued under lock record t that are queued or executing.
JobsOf(t) ==
    Cardinality({i \in DOMAIN queue : queue[i].tok = t})
    + Cardinality({w \in Workers : wk[w].pc \in Running /\ wk[w].tok = t})
\* The calls that hold lock record t: past their SET-NX, not yet returned.
WinnersOf(t) == {c \in Callers : req[c].pc \in {"enqueue", "setlast"} /\ req[c].tok = t}

\* C1: concurrent ensure_cache_request(X) calls: on every lock record exactly
\* one SET-NX succeeds, and the call that won it enqueues exactly one job (none
\* before its enqueue step, one after it); no other call enqueues under it.
C1_OneWinnerOneJob ==
    \A t \in Toks :
        /\ won[t] = (IF t < nextTok THEN 1 ELSE 0)
        /\ enq[t] <= won[t]
        /\ JobsOf(t) <= enq[t]
        /\ Cardinality(WinnersOf(t)) <= 1
        /\ \A c \in WinnersOf(t) : enq[t] = (IF req[c].pc = "setlast" THEN 1 ELSE 0)
\* Two calls for the same identifier are in flight, one of them has won the lock
\* and enqueued its job, the other is at its SET-NX.
C1_Witness ==
    \E c1, c2 \in Callers :
        /\ req[c1].pc = "setlast" /\ req[c2].pc = "setnx"
        /\ req[c1].vid = req[c2].vid
        /\ lock[req[c1].vid].held /\ lock[req[c1].vid].tok = req[c1].tok
        /\ enq[req[c1].tok] = 1

\* C2: no download_av_job(X) is enqueued while the metadata record of X has both
\* paths populated.
C2_NoEnqueueWhenReady ==
    [][\A c \in Callers : EnsureEnqueue(c) => ~BothPaths(req[c].vid)]_vars

\* C3: every execution of download_av_job that ends by return or by an exception
\* ends with the finally block's release_lock.
C3_ReleaseOnEveryExit ==
    [][\A w \in Workers :
          (JobStartFail(w) \/ (wk[w].pc \in Running /\ wk'[w].pc = "idle")) => Release(w)]_vars

\* C4: a job whose video or audio invocation exits non-zero goes to the finally
\* block with the RuntimeError in flight; from there on it writes no metadata
\* record, and when it ends the lock key of its identifier is deleted.
C4_FailedToolNoStore ==
    [][\A w \in Workers :
          /\ \A rc \in ExitCodes \ {0} :
                /\ \A wr \in ToolWrites("video") : VideoExit(w, rc, wr) =>
                      (wk'[w].pc = "finally" /\ wk'[w].exc = "tool_failed" /\ media' = media)
                /\ \A wr \in ToolWrites("audio") : AudioExit(w, rc, wr) =>
                      (wk'[w].pc = "finally" /\ wk'[w].exc = "tool_failed" /\ media' = media)
          /\ (wk[w].pc = "finally" /\ wk[w].exc = "tool_failed" /\ wk'[w] # wk[w]) =>
                /\ media' = media
                /\ wk'[w].pc \in {"idle", "dead"}
                /\ wk'[w].pc = "idle" => ~lock'[wk[w].id].held]_vars
\* A job is in its finally block after a non-zero exit status, its lock still held.
C4_Witness ==
    \E w \in Workers :
        /\ wk[w].pc = "finally" /\ wk[w].exc = "tool_failed"
        /\ lock[wk[w].id].held /\ lock[wk[w].id].tok = wk[w].tok

\* The job enqueued under lock record t is queued, or running within its job timeout.
Alive(t) ==
    \/ \E i \in DOMAIN queue : queue[i].tok = t
    \/ \E w \in Workers : wk[w].pc \in InTry /\ wk[w].tok = t

\* C5: the lock TTL exceeds the job timeout, so the lock of X is never removed by
\* TTL expiry while the job enqueued under it is queued or running within its
\* job timeout.
C5_NoExpiryWhileJobAlive ==
    [][\A x \in IDS :
          (lock[x].held /\ now' # now /\ ~lock'[x].held) => ~Alive(lock[x].tok)]_vars

\* C6: in no reachable state are two executions of download_av_job(X) both
\* between their start and their release_lock.
C6_SingleWriter ==
    \A w1, w2 \in Workers :
        (w1 # w2 /\ wk[w1].pc \in Running /\ wk[w2].pc \in Running) => wk[w1].id # wk[w2].id

\* The lock of x is held and the worker that ran the job enqueued under it died
\* without running release_lock.
Orphaned(x) ==
    /\ lock[x].held
    /\ \E w \in Workers : wk[w].pc = "dead" /\ wk[w].id = x /\ wk[w].tok = lock[x].tok

\* C7: while the lock of X is orphaned, every SET-NX attempt for X fails and
\* enqueues nothing, and the lock record stays until its TTL has elapsed; the
\* SET-NX attempt on the expired lock succeeds.
C7_OrphanHeldUntilTTL ==
    [][\A x \in IDS :
          /\ Orphaned(x) =>
                /\ \A c \in Callers :
                      (req[c].pc = "setnx" /\ req[c].vid = x /\ EnsureSetNX(c)) =>
                          (req'[c].pc = "idle" /\ queue' = queue)
                /\ ~lock'[x].held => now' >= lock[x].exp
          /\ \A c \in Callers :
                (req[c].pc = "setnx" /\ req[c].vid = x /\ ~lock[x].held /\ EnsureSetNX(c)) =>
                    (req'[c].pc = "enqueue" /\ lock'[x].held)]_vars

\* C8: an ensure_cache_request(X) call that starts when the metadata record of X
\* has both paths populated returns at once and leaves the record, the lock key,
\* the last-job key and the queue unchanged, the caller ready to call again.
C8_ReadyCallChangesNothing ==
    [][\A c \in Callers, x \in IDS :
          (EnsureRead(c, x) /\ BothPaths(x)) =>
              /\ req'[c] = IdleReq
              /\ media' = media /\ lock' = lock /\ lastJob' = lastJob /\ queue' = queue]_vars
\* The record is ready and a caller is about to call ensure_cache_request.
C8_Witness ==
    \E c \in Callers, x \in IDS :
        BothPaths(x) /\ req[c].pc = "idle" /\ FirstIdle(c)

\* C9: an ensure_cache_request(X) call whose steps run while the lock of X is held
\* returns the empty result and changes nothing: no job, no last-job key, the same
\* metadata record, the same lock record with the same expiry.
C9_HeldLockCallChangesNothing ==
    [][\A c \in Callers, x \in IDS :
          lock[x].held =>
              /\ EnsureRead(c, x) =>
                    (req'[c].pc \in {"idle", "setnx"} /\ lock' = lock /\ queue' = queue
                        /\ lastJob' = lastJob /\ media' = media)
              /\ (req[c].pc = "setnx" /\ req[c].vid = x /\ EnsureSetNX(c)) =>
                    (req'[c] = IdleReq /\ lock' = lock /\ queue' = queue
                        /\ lastJob' = lastJob /\ media' = media)]_vars
\* A call is at its SET-NX while another call holds the lock of the same identifier.
C9_Witness ==
    \E c \in Callers :
        /\ req[c].pc = "setnx"
        /\ lock[req[c].vid].held
        /\ \E w \in Workers : wk[w].pc \in InTry /\ wk[w].tok = lock[req[c].vid].tok

\* C10: once the metadata record of X has both paths populated it is never
\* deleted and never changes value.
C10_ReadyRecordImmutable ==
    [][\A x \in IDS : BothPaths(x) => media'[x] = media[x]]_vars

\* C11: the queue grows only by the q.enqueue of an ensure_cache_request call that
\* has just won a fresh lock record, one job at a time: no step of a job, of a
\* worker or of the clock enqueues anything, so a failed job is not run again by
\* the engine.  A call whose SET-NX finds no lock for X wins a fresh lock record
\* and goes on to enqueue; its enqueue adds exactly one job for X.
C11_NoRetryFreshAttempt ==
    [][/\ queue' # queue =>
             \/ \E w \in Workers : (JobStart(w) \/ JobStartFail(w)) /\ queue' = Tail(queue)
             \/ \E c \in Callers :
                   /\ EnsureEnqueue(c)
                   /\ enq[req[c].tok] = 0
                   /\ queue' = Append(queue, [id |-> req[c].vid, tok |-> req[c].tok])
       /\ \A c \in Callers :
             (req[c].pc = "setnx" /\ ~lock[req[c].vid].held /\ EnsureSetNX(c)) =>
                 /\ req'[c].pc = "enqueue"
                 /\ lock'[req[c].vid].held /\ lock'[req[c].vid].tok = req'[c].tok
                 /\ enq[req'[c].tok] = 0
       /\ \A c \in Callers :
             (req[c].pc = "enqueue" /\ req'[c].pc = "setlast") =>
                 (Len(queue') = Len(queue) + 1 /\ enq'[req[c].tok] = 1)]_vars
\* The first job for X has failed and released its lock (the record is absent, the
\* lock is gone before any time has passed, nothing is queued or running) and the
\* next call for X has found no ready record and is at its SET-NX.
C11_Witness ==
    \E c \in Callers :
        /\ enq[1] = 1 /\ JobsOf(1) = 0 /\ queue = <<>>
        /\ \A w \in Workers : wk[w].pc = "idle"
        /\ now = 0
        /\ req[c].pc = "setnx"
        /\ media[req[c].vid] = NoRaw /\ ~lock[req[c].vid].held

\* No existing file of non-zero size is among the outputs of kind for x.
NoValidOutput(x, kind) ==
    \A p \in DOMAIN files : (p[2] = x /\ p[3] = kind) => ~(files[p].exists /\ files[p].size > 0)

\* C14: when both invocations have exited with status zero and there is no valid
\* output for the video kind or for the audio kind, the resolve step raises and
\* stores nothing; from there on the job writes no metadata record, and when it
\* ends the lock key of its identifier is deleted.
C14_MissingOutputFails ==
    [][\A w \in Workers :
          /\ (wk[w].pc = "resolve" /\ wk'[w].pc \notin {"resolve", "dead"}
                /\ (NoValidOutput(wk[w].id, "video") \/ NoValidOutput(wk[w].id, "audio"))) =>
                (wk'[w].pc = "finally" /\ wk'[w].exc # "none" /\ media' = media)
          /\ (wk[w].pc = "finally" /\ wk[w].exc = "missing" /\ wk'[w] # wk[w]) =>
                /\ media' = media
                /\ wk'[w].pc \in {"idle", "dead"}
                /\ wk'[w].pc = "idle" => ~lock'[wk[w].id].held]_vars
\* A job is in its finally block after the resolver found an output missing: both
\* invocations exited with status zero, one of them leaving an empty file.
C14_Witness ==
    \E w \in Workers :
        /\ wk[w].pc = "finally" /\ wk[w].exc = "missing"
        /\ \E p \in DOMAIN files : p[2] = wk[w].id /\ files[p].exists /\ files[p].size = 0
        /\ media[wk[w].id] = NoRaw
        /\ lock[wk[w].id].held /\ lock[wk[w].id].tok = wk[w].tok

\* C16: the release_lock of a job deletes only the lock record under which that
\* job was enqueued, never a record created by a later acquisition.
C16_ReleaseOnlyOwnLock ==
    [][\A w \in Workers :
          (Release(w) /\ lock[wk[w].id].held) => lock[wk[w].id].tok = wk[w].tok]_vars

\* C17: a job on its return path has stored the record: whenever a job is in its
\* finally block with no exception in flight the metadata record of its
\* identifier has both paths, and so it has when the lock is released.
C17_StoreBeforeRelease ==
    /\ [](\A w \in Workers :
             (wk[w].pc = "finally" /\ wk[w].exc = "none") => BothPaths(wk[w].id))
    /\ [][\A w \in Workers :
             (Release(w) /\ wk[w].exc = "none") =>
                 (BothPaths(wk[w].id) /\ media' = media /\ ~lock'[wk[w].id].held)]_vars
\* A successful job has stored the record and still holds its lock.
C17_Witness ==
    \E w \in Workers :
        /\ wk[w].pc = "finally" /\ wk[w].exc = "none"
        /\ lock[wk[w].id].held /\ lock[wk[w].id].tok = wk[w].tok
        /\ BothPaths(wk[w].id)

\* C18: the job timeout is strictly greater than the sum of the two tool
\* timeouts: when the video invocation of a job starts, the latest moment at
\* which the audio invocation can end lies before the job's deadline.
C18_JobTimeoutAboveToolTimeouts ==
    \A w \in Workers :
        wk[w].pc = "video" =>
            wk[w].toolStart + VIDEO_TIMEOUT + AUDIO_TIMEOUT < wk[w].startedAt + JOB_TIMEOUT

\* C20: the audio invocation of a job starts only by the video invocation of the
\* same job returning exit status zero; a video invocation that fails or times
\* out takes the job to the finally block, from which no invocation starts.
C20_VideoThenAudio ==
    [][\A w \in Workers :
          /\ (wk'[w].pc = "audio" /\ wk[w].pc # "audio") =>
                (wk[w].pc = "video" /\ \E wr \in ToolWrites("video") : VideoExit(w, 0, wr))
          /\ \A wr \in ToolWrites("video") :
                ((\E rc \in ExitCodes \ {0} : VideoExit(w, rc, wr)) \/ VideoTimeout(w, wr)) =>
                    wk'[w].pc = "finally"
          /\ (wk[w].pc = "finally" /\ wk'[w] # wk[w]) => wk'[w].pc \in {"idle", "dead"}
          /\ (wk'[w].pc = "video" /\ wk[w].pc # "video") => wk[w].pc = "idle"]_vars
\* The audio invocation of a job is running; its video invocation left a file.
C20_Witness ==
    \E w \in Workers :
        /\ wk[w].pc = "audio"
        /\ \E p \in DOMAIN files : p[2] = wk[w].id /\ p[3] = "video" /\ files[p].exists

\* C12: under fair scheduling every lock record is eventually removed: a held lock
\* whose expiry lies within the modelled time leads to a state in which the lock
\* of that identifier is not held.
C12_LockEventuallyRemoved ==
    \A x \in Requested : (lock[x].held /\ lock[x].exp <= MaxNow) ~> ~lock[x].held
\* The worker that ran the only job ever enqueued died without release_lock, and
\* the lock record of that job is gone.
C12_Witness ==
    \E w \in Workers :
        /\ wk[w].pc = "dead" /\ wk[w].tok = 1
        /\ nextTok = 2
        /\ ~lock[wk[w].id].held

\* The candidates of the call that are existing files of non-zero size.
ValidCandidates ==
    {p \in {call.args[i] : i \in DOMAIN call.args} : files[p].exists /\ files[p].size > 0}

\* C13: _pick_newest_nonempty returns nothing exactly when no candidate is an
\* existing file of non-zero size; otherwise it returns such a candidate, one
\* whose modification time is not older than that of any other.
C13_PickNewestNonempty ==
    (call.fn = "pick" /\ call.pc = "done") =>
        /\ (call.ret = NoPath) <=> (ValidCandidates = {})
        /\ ValidCandidates # {} =>
              /\ call.ret \in ValidCandidates
              /\ \A q \in ValidCandidates : files[q].mtime <= files[call.ret].mtime
\* The call has returned the newer of two valid candidates although the older one
\* is larger and comes first in the list, which also holds a zero-byte file.
C13_Witness ==
    /\ call.fn = "pick" /\ call.pc = "done"
    /\ Len(call.args) = 3
    /\ call.ret = call.args[2]
    /\ call.args[1] \in ValidCandidates
    /\ files[call.args[1]].size > files[call.ret].size
    /\ files[call.args[1]].mtime < files[call.ret].mtime
    /\ files[call.args[3]].exists /\ files[call.args[3]].size = 0

Untouched(y) ==
    /\ lock'[y] = lock[y] /\ media'[y] = media[y] /\ lastJob'[y] = lastJob[y]
    /\ \A p \in DOMAIN files : p[2] = y => files'[p] = files[p]
\* The identifier of the call that thread c takes a step of, and of the job that
\* worker w takes a step of.
CallId(c) == IF req[c].pc = "idle" THEN req'[c].vid ELSE req[c].vid
JobId(w) == IF wk[w].pc = "idle" THEN wk'[w].id ELSE wk[w].id

\* C19: a step of ensure_cache_request(X) or of download_av_job(X) leaves the
\* lock key, the metadata record, the last-job key and the output files of every
\* other identifier unchanged, and the files the glob patterns of X match are
\* files written for X.
C19_OtherIdentifierUntouched ==
    /\ [][\A y \in IDS :
             /\ \A c \in Callers : (req'[c] # req[c] /\ CallId(c) # y) => Untouched(y)
             /\ \A w \in Workers : (wk'[w] # wk[w] /\ JobId(w) # y) => Untouched(y)]_vars
    /\ [](\A x \in IDS, kind \in Kinds : \A p \in GlobSet(files, x, kind) : p[2] = x)
\* The job of one identifier is about to enumerate its candidates while the other
\* identifier has its lock held and output files of both kinds on disk.
C19_Witness ==
    \E w \in Workers, y \in IDS :
        /\ wk[w].pc = "resolve" /\ wk[w].id # y
        /\ GlobSet(files, wk[w].id, "video") # {} /\ GlobSet(files, wk[w].id, "audio") # {}
        /\ lock[y].held
        /\ \A kind \in Kinds : \E p \in DOMAIN files : p[2] = y /\ p[3] = kind /\ files[p].exists

\* p names an existing file of non-zero size.
ValidFile(p) == p \in DOMAIN files /\ files[p].exists /\ files[p].size > 0

\* C21: the metadata record of every identifier is absent or has both paths, and
\* at the step that stores a record each of its two paths names an existing file
\* of non-zero size.
C21_RecordAbsentOrComplete ==
    /\ [](\A x \in IDS : media[x] = NoRaw \/ BothPaths(x))
    /\ [][\A w \in Workers :
             Store(w) =>
                 /\ media'[wk[w].id] = Dumps(Payload(wk[w].id, wk[w].video_path,
                                                     wk[w].audio_path, now))
                 /\ ValidFile(wk[w].video_path) /\ ValidFile(wk[w].audio_path)]_vars

\* A job for x is queued or running.
JobBehind(x) ==
    \/ \E i \in DOMAIN queue : queue[i].id = x
    \/ \E w \in Workers : wk[w].pc \in Running /\ wk[w].id = x

\* C22: while no worker is dead, a held lock of X with no ensure_cache_request(X)
\* between its SET-NX and its enqueue has a job for X queued or running; and a
\* call whose enqueue fails does not return leaving the lock record it created
\* held with no job for X.
C22_HeldLockHasJob ==
    /\ [](\A x \in IDS :
             (/\ lock[x].held
              /\ ~\E c \in Callers : req[c].pc = "enqueue" /\ req[c].vid = x
              /\ ~\E w \in Workers : wk[w].pc = "dead") => JobBehind(x))
    /\ [][\A c \in Callers :
             (EnsureEnqueueFail(c) /\ lock'[req[c].vid].held
                                   /\ lock'[req[c].vid].tok = req[c].tok) =>
                 (queue' = queue /\ wk' = wk /\ JobBehind(req[c].vid))]_vars

\* p was written by an invocation of the job that runs in JobSpec: the files that
\* were in the directory before carry modification time 0.
WrittenByJob(p) == files[p].exists /\ files[p].mtime # 0

\* C23: the two paths a job publishes name media files that its own video and
\* audio invocations wrote: not a file an earlier attempt left, not a subtitle
\* file of the video invocation.
C23_PublishesOwnOutputs ==
    [][\A w \in Workers :
          Store(w) =>
              /\ wk[w].video_path[4] \in Exts("video") /\ WrittenByJob(wk[w].video_path)
              /\ wk[w].audio_path[4] \in Exts("audio") /\ WrittenByJob(wk[w].audio_path)]_vars

====
